---- MODULE Spec2Model ----
(***************************************************************************)
(* Model of bybit_auto_trader.py: the polling loop of Bot (circuit         *)
(* breakers, signal decision, sizing, brackets, order submission, client   *)
(* side stop), its pure functions (Bot.decide, Bot.position_sizing, the    *)
(* indicators), and the watcher of telegram_bybit_watch_bot.py.            *)
(*                                                                         *)
(* Numbers.  Python floats are modelled by exact integers:                 *)
(*   - money (equity, prices, atr, indicator values) in whole quote units; *)
(*   - fractions of the configuration as scaled integers (DAILY_LOSS_LIMIT *)
(*     and GLOBAL_DD_LIMIT in percent, RISK_PCT and the 0.002 minimum stop *)
(*     fraction in thousandths, the ATR multipliers and                    *)
(*     MAX_POS_EQUITY_FRAC in tenths);                                     *)
(*   - rsi in whole points 0..100;                                         *)
(*   - quantities in units of 10^-7 contracts (QtyScale units = 1).        *)
(* Binary rounding error of floats is not modelled.  atr inputs are even,  *)
(* so that 1.5 * atr is a whole number of quote units.                     *)
(* None (an unavailable indicator) is the integer -1, outside every value  *)
(* domain.                                                                 *)
(* The indicator functions sma, ema, rsi, atr return exact fractions       *)
(* num/den, or Unavailable for the None they return.                       *)
(***************************************************************************)
EXTENDS Integers, Sequences, FiniteSets, TLC

VARIABLES
    pc,                \* position of the process inside Bot.loop
    exit,              \* "" while the process runs, else why it ended
    dry_run,           \* DRY_RUN
    instrument,        \* self.instrument
    start_equity,      \* self.start_equity
    day_start_equity,  \* self.day_start_equity
    position,          \* self.position
    x,                 \* local x of the iteration (indicator snapshot)
    action,            \* local action of the iteration
    orders,            \* orders handed to the gateway in this iteration
    fetched,           \* candles were fetched in this iteration
    polled,            \* equity seen by circuit_breakers in this iteration
    pos0,              \* self.position when the iteration started
    prev,              \* the sleep the previous iteration ended in ("" at first)
    call,              \* a pure function under test and its arguments
    ret,               \* what that call returned
    st,                \* the WatchState of one chat of the watch bot
    sent,              \* alerts in the message the watcher's last poll sent
    ev                 \* the last event the watch bot handled

\* the variables outside Bot.loop
Aside == <<call, ret, st, sent, ev>>

vars == <<pc, exit, dry_run, instrument, start_equity, day_start_equity,
          position, x, action, orders, fetched, polled, pos0, prev, Aside>>

None == -1

----------------------------------------------------------------------------
(* Configuration constants                                                  *)

RSI_LONG == 55
RSI_SHORT == 45
ATR_SL_MULT == 15          \* 1.5, in tenths
ATR_TP_MULT == 20          \* 2.0, in tenths
RISK_PCT == 3              \* 0.003, in thousandths
MAX_LEVERAGE == 5
MAX_POS_EQUITY_FRAC == 2   \* 0.2, in tenths
DAILY_LOSS_LIMIT == 2      \* 0.02, in percent
GLOBAL_DD_LIMIT == 5       \* 0.05, in percent
MIN_STOP_FRAC == 2         \* the literal 0.002 of position_sizing, in thousandths
QTY_DECIMALS == 6          \* the literal .6f of position_sizing

TenthScale == 10
PctScale == 100
MilleScale == 1000
QtyScale == 10000000       \* quantity units per contract (10^-7 contracts)

----------------------------------------------------------------------------
(* Bounds of the model                                                      *)

MaxEquity == 50            \* largest equity the wallet reports
EquityDrop == 3            \* equities MaxEquity-EquityDrop..MaxEquity are polled
MidPrice == 100            \* centre of the price grid
PriceSpread == 4           \* closes are MidPrice + k*PriceSpread, k in -2..2
MaxAtr == 2                \* largest atr (even)
MaxLen == 4                \* longest candle series given to an indicator
MaxWindow == 3             \* largest window length n given to an indicator
MaxLog == 4                \* messages of the watch bot that are followed
MaxPctMove == 8            \* largest /pct argument
HighPrice == 2000          \* a price at which the notional cap binds the size

Equities == {0} \cup ((MaxEquity - EquityDrop)..MaxEquity)
Prices == {MidPrice + k * PriceSpread : k \in -2..2}
Atrs == {None, 0} \cup {a \in 1..MaxAtr : a % 2 = 0}

Max(a, b) == IF a >= b THEN a ELSE b
Min(a, b) == IF a <= b THEN a ELSE b

\* Python truthiness of an indicator value: None and 0.0 are false.
Truthy(v) == v # None /\ v # 0

\* math.floor(value/step)*step for step > 0
round_step(value, step) == (value \div step) * step

\* Position() : the dataclass defaults
FlatPosition == [side |-> "", entry |-> 0, qty |-> 0, sl |-> 0, tp |-> 0]

Position(side, entry, qty, sl, tp) ==
    [side |-> side, entry |-> entry, qty |-> qty, sl |-> sl, tp |-> tp]

Instruments ==
    { [qty_step |-> 10000,   min_qty |-> 10000,   tick_size |-> 1, max_leverage |-> 100],
      [qty_step |-> 1000000, min_qty |-> 1000000, tick_size |-> 5, max_leverage |-> 3] }

----------------------------------------------------------------------------
(* The indicators sma, ema, rsi, atr over a series.  Their float results    *)
(* are exact fractions num/den; Unavailable is the None they return.        *)

Unavailable == [none |-> TRUE]
Num(p, q) == [none |-> FALSE, num |-> p, den |-> q]

Abs(v) == IF v < 0 THEN -v ELSE v

RECURSIVE SumSeq(_)
SumSeq(s) == IF s = <<>> THEN 0 ELSE Head(s) + SumSeq(Tail(s))

\* Python slices values[:n], values[n:], values[-n:] for 0 <= n <= len
FirstN(s, n) == SubSeq(s, 1, n)
FromN(s, n) == SubSeq(s, n + 1, Len(s))
LastN(s, n) == SubSeq(s, Len(s) - n + 1, Len(s))

\* sma that also wants more than n points
sma_needs_more(values, n) ==
    IF Len(values) <= n \/ n <= 0 THEN Unavailable
    ELSE Num(SumSeq(LastN(values, n)), n)

sma(values, n) ==
    IF Len(values) < n \/ n <= 0 THEN Unavailable
    ELSE Num(SumSeq(LastN(values, n)), n)

\* e = v*k + e*(1-k) with k = 2/(n+1), over the values after the seed
RECURSIVE ema_smooth(_, _, _)
ema_smooth(e, vs, n) ==
    IF vs = <<>> THEN e
    ELSE ema_smooth(Num(2 * Head(vs) * e.den + e.num * (n - 1), e.den * (n + 1)),
                    Tail(vs), n)

ema(values, n) ==
    IF Len(values) < n \/ n <= 0 THEN Unavailable
    ELSE ema_smooth(Num(SumSeq(FirstN(values, n)), n), FromN(values, n), n)

\* the differences values[i]-values[i-1] for i in range(-n, 0)
rsi_diffs(values, n) ==
    [j \in 1..n |-> values[Len(values) - n + j] - values[Len(values) - n + j - 1]]

rsi(values, n) ==
    IF Len(values) < n + 1 THEN Unavailable
    ELSE LET d == rsi_diffs(values, n)
             gains == SumSeq([j \in 1..n |-> IF d[j] >= 0 THEN d[j] ELSE 0])
             losses == SumSeq([j \in 1..n |-> IF d[j] >= 0 THEN 0 ELSE -d[j]])
         IN  IF losses = 0 THEN Num(100, 1)
             ELSE Num(100 * gains, gains + losses)   \* 100 - 100/(1 + gains/losses)

\* the true ranges of bars 1..len-1 (0-based) of line 114-116
true_ranges(high, low, close) ==
    [j \in 1..(Len(close) - 1) |->
        Max(high[j + 1] - low[j + 1],
            Max(Abs(high[j + 1] - close[j]), Abs(low[j + 1] - close[j])))]

\* a = (a*(n-1)+x)/n over the true ranges after the seed
RECURSIVE atr_smooth(_, _, _)
atr_smooth(a, trs, n) ==
    IF trs = <<>> THEN a
    ELSE atr_smooth(Num(a.num * (n - 1) + Head(trs) * a.den, a.den * n), Tail(trs), n)

\* n >= 1, and high, low as long as close
atr(high, low, close, n) ==
    IF Len(close) < n + 1 THEN Unavailable
    ELSE LET trs == true_ranges(high, low, close) IN
         IF Len(trs) < n THEN Unavailable
         ELSE atr_smooth(Num(SumSeq(FirstN(trs, n)), n), FromN(trs, n), n)

----------------------------------------------------------------------------
(* Indicator snapshots: the dict returned by Bot.compute_indicators         *)

Snapshot(ema200, sfast, sslow, rsi_v, atr_v, close) ==
    [ema200 |-> ema200, sfast |-> sfast, sslow |-> sslow,
     rsi |-> rsi_v, atr |-> atr_v, close |-> close]

NoSnapshot == Snapshot(None, None, None, None, None, None)

\* rsi values around both thresholds, and the extremes 0 and 100
Rsis == {0, RSI_SHORT - 5, RSI_SHORT, RSI_LONG, RSI_LONG + 5, 100}

\* Every combination of available/unavailable indicators (inputs of decide)
Snapshots ==
    { Snapshot(e, f, s, r, a, c) :
        e \in {None, MidPrice}, f \in {None, MidPrice - 1, MidPrice + 1},
        s \in {None, MidPrice}, r \in {None} \cup Rsis, a \in Atrs, c \in Prices }

\* Snapshots of a warmed-up history (200 candles): what the loop sees
LoopSnapshots ==
    { sn \in Snapshots :
        /\ sn.ema200 # None /\ sn.sfast # None /\ sn.sslow # None
        /\ sn.rsi \in {0, RSI_SHORT - 5, RSI_LONG + 5} }

----------------------------------------------------------------------------
(* Bot.decide                                                               *)

\* long_sig without the availability test of ema200
long_sig_unchecked_ema(sn) ==
    /\ Truthy(sn.sfast) /\ Truthy(sn.sslow) /\ sn.sfast > sn.sslow
    /\ sn.close > sn.ema200
    /\ Truthy(sn.rsi) /\ sn.rsi > RSI_LONG

\* line 183
long_sig(sn) ==
    /\ Truthy(sn.sfast) /\ Truthy(sn.sslow) /\ sn.sfast > sn.sslow
    /\ Truthy(sn.ema200) /\ sn.close > sn.ema200
    /\ Truthy(sn.rsi) /\ sn.rsi > RSI_LONG

\* line 184
short_sig(sn) ==
    /\ Truthy(sn.sfast) /\ Truthy(sn.sslow) /\ sn.sfast < sn.sslow
    /\ Truthy(sn.ema200) /\ sn.close < sn.ema200
    /\ Truthy(sn.rsi) /\ sn.rsi < RSI_SHORT

\* trail_sl without the max/min guard: the stop follows the price both ways
trail_sl_loosens(pos, sn) ==
    IF pos.side = "" \/ ~Truthy(sn.atr) THEN pos.sl
    ELSE IF pos.side = "long"
         THEN sn.close - (ATR_SL_MULT * sn.atr) \div TenthScale
         ELSE sn.close + (ATR_SL_MULT * sn.atr) \div TenthScale

\* the stop after the trailing update of decide (lines 190-192, 195-197)
trail_sl(pos, sn) ==
    IF pos.side = "" \/ ~Truthy(sn.atr) THEN pos.sl
    ELSE IF pos.side = "long"
         THEN LET new_sl == Max(pos.sl, sn.close - (ATR_SL_MULT * sn.atr) \div TenthScale)
              IN  IF new_sl > pos.sl THEN new_sl ELSE pos.sl
         ELSE LET new_sl == Min(pos.sl, sn.close + (ATR_SL_MULT * sn.atr) \div TenthScale)
              IN  IF new_sl < pos.sl THEN new_sl ELSE pos.sl

\* decide_action without the test of self.position.side: entries while a
\* position is open
decide_action_reenters(pos, sn) ==
    IF long_sig(sn) THEN "open_long"
    ELSE IF short_sig(sn) THEN "open_short"
    ELSE IF pos.side = "" THEN "hold" ELSE "manage"

\* the value decide returns
decide_action(pos, sn) ==
    IF pos.side = ""
    THEN IF long_sig(sn) THEN "open_long"
         ELSE IF short_sig(sn) THEN "open_short"
         ELSE "hold"
    ELSE IF pos.side = "long"
         THEN IF short_sig(sn) THEN "close_long" ELSE "manage"
         ELSE IF long_sig(sn) THEN "close_short" ELSE "manage"

\* decide: the returned action and self.position after the call
decide(pos, sn) ==
    [action |-> decide_action(pos, sn),
     position |-> [pos EXCEPT !.sl = trail_sl(pos, sn)]]

----------------------------------------------------------------------------
(* Risk manager                                                             *)

\* float(f"{qty:.6f}"): the nearest multiple of 10^-6 contracts
DisplayUnit == QtyScale \div (10 ^ QTY_DECIMALS)
fmt6(q) == ((q + DisplayUnit \div 2) \div DisplayUnit) * DisplayUnit

\* position_sizing without the notional cap of lines 206-207
position_sizing_no_cap(equity, instr, price, atr_val) ==
    LET risk_dollars == equity * RISK_PCT
        stop_dist == Max(atr_val * ATR_SL_MULT * (MilleScale \div TenthScale),
                         price * MIN_STOP_FRAC)
        qty == (risk_dollars * QtyScale) \div stop_dist
    IN  fmt6(Max(round_step(qty, instr.qty_step), instr.min_qty))

\* position_sizing without the max(..., min_qty) of line 209
position_sizing_no_min(equity, instr, price, atr_val) ==
    LET risk_dollars == equity * RISK_PCT
        stop_dist == Max(atr_val * ATR_SL_MULT * (MilleScale \div TenthScale),
                         price * MIN_STOP_FRAC)
        qty_raw == (risk_dollars * QtyScale) \div stop_dist
        max_notional == equity * MAX_POS_EQUITY_FRAC * MAX_LEVERAGE
        qty_cap == (max_notional * (QtyScale \div TenthScale)) \div price
    IN  fmt6(round_step(Min(qty_raw, qty_cap), instr.qty_step))

\* Bot.position_sizing, for the equity its poll returned; price > 0, atr_val > 0
position_sizing(equity, instr, price, atr_val) ==
    LET risk_dollars == equity * RISK_PCT                          \* thousandths
        stop_dist == Max(atr_val * ATR_SL_MULT * (MilleScale \div TenthScale),
                         price * MIN_STOP_FRAC)                    \* thousandths
        qty_raw == (risk_dollars * QtyScale) \div stop_dist
        max_notional == equity * MAX_POS_EQUITY_FRAC * MAX_LEVERAGE \* tenths
        qty_cap == (max_notional * (QtyScale \div TenthScale)) \div price
        qty == Min(qty_raw, qty_cap)
    IN  fmt6(Max(round_step(qty, instr.qty_step), instr.min_qty))

\* Bot.bracket_prices: <<tp, sl>>
bracket_prices(instr, side, price, atr_val) ==
    LET tick == instr.tick_size IN
    IF side = "long"
    THEN [sl |-> round_step(price - (ATR_SL_MULT * atr_val) \div TenthScale, tick),
          tp |-> round_step(price + (ATR_TP_MULT * atr_val) \div TenthScale, tick)]
    ELSE [sl |-> round_step(price + (ATR_SL_MULT * atr_val) \div TenthScale, tick),
          tp |-> round_step(price - (ATR_TP_MULT * atr_val) \div TenthScale, tick)]

\* the two conditions circuit_breakers tests
\* a Pause that measures the daily loss against a limit above the
\* global-drawdown limit
PauseCondition_looser(equity, day_start) ==
    day_start > 0
    /\ (equity - day_start) * PctScale <= -(2 * GLOBAL_DD_LIMIT * day_start)

\* the daily-loss test without its guard on a positive baseline
PauseCondition_unguarded(equity, day_start) ==
    (equity - day_start) * PctScale <= -(DAILY_LOSS_LIMIT * day_start)

PauseCondition(equity, day_start) ==
    day_start > 0 /\ (equity - day_start) * PctScale <= -(DAILY_LOSS_LIMIT * day_start)

HaltCondition(equity, start) ==
    start > 0 /\ (equity - start) * PctScale <= -(GLOBAL_DD_LIMIT * start)

\* Bot.circuit_breakers: "pause" for return True, "halt" for SystemExit,
\* "ok" for return False
circuit_breakers(equity, day_start, start) ==
    IF PauseCondition(equity, day_start) THEN "pause"
    ELSE IF HaltCondition(equity, start) THEN "halt"
    ELSE "ok"

----------------------------------------------------------------------------
(* The gateway's view of an order: the payload of /v5/order/create          *)

Order(kind, side, qty, reduceOnly, tp, sl) ==
    [kind |-> kind, side |-> side, qty |-> qty, reduceOnly |-> reduceOnly,
     tp |-> tp, sl |-> sl]

Last(s) == s[Len(s)]

\* stop_crossed with strict comparisons: a close exactly on the stop is missed
stop_crossed_strict(pos, price) ==
    \/ pos.side = "long" /\ price < pos.sl
    \/ pos.side = "short" /\ price > pos.sl

\* the client-side stop test of lines 260 and 265
stop_crossed(pos, price) ==
    \/ pos.side = "long" /\ price <= pos.sl
    \/ pos.side = "short" /\ price >= pos.sl

SleepPcs == {"sleep", "sleep_pause", "sleep_err"}

\* no pure function is under test and no watcher exists
NoCall == [fn |-> ""]
NoRet == [done |-> FALSE]
Ret(v) == [done |-> TRUE, val |-> v]
NoWatch == [symbol |-> ""]
AsideIdle ==
    /\ call = NoCall /\ ret = NoRet
    /\ st = NoWatch /\ sent = <<>> /\ ev = [kind |-> ""]

----------------------------------------------------------------------------
(* State after Bot.__init__ (get_instrument and get_wallet_equity           *)
(* succeeded), at the first statement of Bot.loop                           *)

Init ==
    /\ pc = "banner"
    /\ exit = ""
    /\ dry_run \in BOOLEAN
    /\ instrument \in Instruments
    /\ start_equity \in {0, MaxEquity}
    /\ day_start_equity = start_equity
    /\ position = FlatPosition
    /\ x = NoSnapshot
    /\ action = ""
    /\ orders = <<>>
    /\ fetched = FALSE
    /\ polled = None
    /\ pos0 = FlatPosition
    /\ prev = ""
    /\ AsideIdle

\* what an iteration leaves alone unless it says otherwise
Config == <<dry_run, instrument, start_equity, day_start_equity>>

\* no handler for Exception: the error leaves the loop
except_Exception_propagates == [pc |-> pc, exit |-> "error"]

\* an exception other than KeyboardInterrupt/SystemExit raised inside the
\* try block: lines 273-274
except_Exception == [pc |-> "sleep_err", exit |-> ""]

\* an error path that takes the order for done and forgets the position
Caught_forgets_position ==
    /\ pc' = except_Exception.pc
    /\ exit' = except_Exception.exit
    /\ position' = FlatPosition
    /\ UNCHANGED <<Config, Aside, prev, x, action, orders, fetched, polled, pos0>>

\* lines 273-274: an exception raised by the current statement is caught,
\* nothing else changes
Caught ==
    /\ pc' = except_Exception.pc
    /\ exit' = except_Exception.exit
    /\ UNCHANGED <<Config, Aside, prev, position, x, action, orders, fetched, polled, pos0>>

\* line 232: the equity poll before the while loop, outside the try block
Banner ==
    /\ exit = "" /\ pc = "banner"
    /\ \/ /\ pc' = "breakers"
          /\ UNCHANGED exit
       \/ /\ exit' = "error"
          /\ UNCHANGED pc
    /\ UNCHANGED <<Config, Aside, prev, position, x, action, orders, fetched, polled, pos0>>

\* after_breakers without the continue of line 236: a paused iteration trades
after_breakers_no_continue(r) ==
    IF r = "halt" THEN "halted" ELSE "klines"

\* a pause that, once taken, is taken again whatever the breaker reports
after_breakers_sticky(r) ==
    IF r = "pause" \/ prev = "sleep_pause" THEN "sleep_pause"
    ELSE IF r = "halt" THEN "halted" ELSE "klines"

\* lines 235-237: where the loop goes on the result of circuit_breakers:
\* sleep(60) and continue, SystemExit leaving the loop, or the rest of the
\* iteration
after_breakers(r) ==
    IF r = "pause" THEN "sleep_pause"
    ELSE IF r = "halt" THEN "halted" ELSE "klines"

\* line 235: self.circuit_breakers()
Breakers ==
    /\ exit = "" /\ pc = "breakers"
    /\ \/ Caught
       \/ \E equity \in Equities :
            LET r == circuit_breakers(equity, day_start_equity, start_equity) IN
            /\ polled' = equity
            /\ pc' = after_breakers(r)
            /\ exit' = IF r = "halt" THEN "halt" ELSE exit
            /\ UNCHANGED <<Config, Aside, prev, position, x, action, orders, fetched, pos0>>

\* lines 237-239: get_klines and compute_indicators
Klines ==
    /\ exit = "" /\ pc = "klines"
    /\ \/ Caught
       \/ \E sn \in LoopSnapshots :
            /\ x' = sn
            /\ fetched' = TRUE
            /\ pc' = "decide"
            /\ UNCHANGED <<exit, Config, Aside, prev, position, action, orders, polled, pos0>>

\* line 240: action = self.decide(x)
Decide ==
    /\ exit = "" /\ pc = "decide"
    /\ LET d == decide(position, x) IN
        /\ action' = d.action
        /\ position' = d.position
    /\ pc' = "act"
    /\ UNCHANGED <<exit, Config, Aside, prev, x, orders, fetched, polled, pos0>>

\* lines 245-246, 249-250 and the call of place_market_order: sizing (with
\* its equity poll), brackets and the submission of the opening order
OpenOrder ==
    /\ exit = "" /\ pc = "act"
    /\ action \in {"open_long", "open_short"} /\ Truthy(x.atr)
    /\ \/ Caught
       \/ \E equity \in Equities :
            LET side == IF action = "open_long" THEN "long" ELSE "short"
                qty == position_sizing(equity, instrument, x.close, x.atr)
                b == bracket_prices(instrument, side, x.close, x.atr)
            IN  /\ orders' = Append(orders,
                        Order("open", IF side = "long" THEN "Buy" ELSE "Sell",
                              qty, FALSE, b.tp, b.sl))
                /\ pc' = "set_position"
                /\ UNCHANGED <<exit, Config, Aside, prev, position, x, action, fetched, polled, pos0>>

\* lines 247, 251: self.position = Position(side, price, qty, sl, tp)
SetPosition ==
    /\ exit = "" /\ pc = "set_position"
    /\ LET o == Last(orders) IN
        position' = Position(IF o.side = "Buy" THEN "long" ELSE "short",
                             x.close, o.qty, o.sl, o.tp)
    /\ pc' = "sl_check"
    /\ UNCHANGED <<exit, Config, Aside, prev, x, action, orders, fetched, polled, pos0>>

\* clearing that resets the side only
cleared_position_side_only(pos) == [pos EXCEPT !.side = ""]

\* what lines 258, 264 and 269 store in self.position
cleared_position(pos) == FlatPosition

\* lines 253-257: the reduce-only close on a close signal
CloseOrder ==
    /\ exit = "" /\ pc = "act"
    /\ action \in {"close_long", "close_short"} /\ position.side # ""
    /\ \/ ~dry_run /\ Caught
       \/ /\ orders' = Append(orders,
                Order("close", IF position.side = "long" THEN "Sell" ELSE "Buy",
                      position.qty, TRUE, 0, 0))
          /\ pc' = "clear_position"
          /\ UNCHANGED <<exit, Config, Aside, prev, position, x, action, fetched, polled, pos0>>

\* line 258: self.position = Position()
ClearPosition ==
    /\ exit = "" /\ pc = "clear_position"
    /\ position' = cleared_position(position)
    /\ pc' = "sl_check"
    /\ UNCHANGED <<exit, Config, Aside, prev, x, action, orders, fetched, polled, pos0>>

\* no branch of lines 245-258 is taken
NoTrade ==
    /\ exit = "" /\ pc = "act"
    /\ ~(action \in {"open_long", "open_short"} /\ Truthy(x.atr))
    /\ ~(action \in {"close_long", "close_short"} /\ position.side # "")
    /\ pc' = "sl_check"
    /\ UNCHANGED <<exit, Config, Aside, prev, position, x, action, orders, fetched, polled, pos0>>

\* lines 259-263, 265-268: the emergency reduce-only close
StopOrder ==
    /\ exit = "" /\ pc = "sl_check"
    /\ position.side # "" /\ stop_crossed(position, x.close)
    /\ \/ ~dry_run /\ Caught
       \/ /\ orders' = Append(orders,
                Order("stop", IF position.side = "long" THEN "Sell" ELSE "Buy",
                      position.qty, TRUE, 0, 0))
          /\ pc' = "sl_clear"
          /\ UNCHANGED <<exit, Config, Aside, prev, position, x, action, fetched, polled, pos0>>

\* lines 264, 269: self.position = Position()
StopClear ==
    /\ exit = "" /\ pc = "sl_clear"
    /\ position' = cleared_position(position)
    /\ pc' = "sleep"
    /\ UNCHANGED <<exit, Config, Aside, prev, x, action, orders, fetched, polled, pos0>>

\* lines 259-269 when the stop is not crossed or no position is open
NoStop ==
    /\ exit = "" /\ pc = "sl_check"
    /\ ~(position.side # "" /\ stop_crossed(position, x.close))
    /\ pc' = "sleep"
    /\ UNCHANGED <<exit, Config, Aside, prev, position, x, action, orders, fetched, polled, pos0>>

\* lines 236, 270, 274: time.sleep returns and the next iteration starts
Sleep ==
    /\ exit = "" /\ pc \in SleepPcs
    /\ pc' = "breakers"
    /\ x' = NoSnapshot
    /\ action' = ""
    /\ orders' = <<>>
    /\ fetched' = FALSE
    /\ polled' = None
    /\ pos0' = position
    /\ prev' = pc
    /\ UNCHANGED <<exit, Config, Aside, position>>

\* a stop request that first closes the open position
on_stop_closes(pos, ords) ==
    IF pos.side = "" THEN [position |-> pos, orders |-> ords]
    ELSE [position |-> FlatPosition,
          orders |-> Append(ords,
              Order("close", IF pos.side = "long" THEN "Sell" ELSE "Buy",
                    pos.qty, TRUE, 0, 0))]

\* what an external stop request does to self.position and the orders:
\* break (line 272) or the propagating SystemExit touch neither
on_stop(pos, ords) == [position |-> pos, orders |-> ords]

\* Ctrl-C (KeyboardInterrupt, lines 271-272) or SIGTERM (exit(0) in the
\* handler of line 286 raises SystemExit) delivered at the current statement
Interrupt ==
    /\ exit = ""
    /\ exit' \in {"KeyboardInterrupt", "SystemExit"}
    /\ LET r == on_stop(position, orders) IN
        /\ position' = r.position
        /\ orders' = r.orders
    /\ UNCHANGED <<pc, Config, Aside, prev, x, action, fetched, polled, pos0>>

Next ==
    \/ Banner \/ Breakers \/ Klines \/ Decide
    \/ OpenOrder \/ SetPosition \/ CloseOrder \/ ClearPosition \/ NoTrade
    \/ StopOrder \/ StopClear \/ NoStop
    \/ Sleep \/ Interrupt

Spec == Init /\ [][Next]_vars

----------------------------------------------------------------------------
(* Bot.decide as a pure function: the inputs are drawn by the initial       *)
(* state, the only step is the call                                         *)

\* a position as line 247/251 creates it
opened(instr, side, price, atr_val) ==
    LET b == bracket_prices(instr, side, price, atr_val)
    IN  Position(side, price, position_sizing(MaxEquity, instr, price, atr_val),
                 b.sl, b.tp)

DecidePositions ==
    {FlatPosition} \cup
    { opened(i, sd, MidPrice, MaxAtr) : i \in Instruments, sd \in {"long", "short"} }

InitDecide ==
    /\ pc = "decide"
    /\ exit = ""
    /\ dry_run = TRUE
    /\ instrument \in Instruments
    /\ start_equity = MaxEquity
    /\ day_start_equity = start_equity
    /\ position \in DecidePositions
    /\ x \in Snapshots
    /\ action = ""
    /\ orders = <<>>
    /\ fetched = TRUE
    /\ polled = MaxEquity
    /\ pos0 = position
    /\ prev = ""
    /\ AsideIdle

NextDecide == Decide

SpecDecide == InitDecide /\ [][NextDecide]_vars

----------------------------------------------------------------------------
(* One iteration of the loop from the call of decide on, for every          *)
(* snapshot compute_indicators can return (warm-up included)                *)

InitIteration ==
    /\ pc = "decide"
    /\ exit = ""
    /\ dry_run \in BOOLEAN
    /\ instrument \in Instruments
    /\ start_equity = MaxEquity
    /\ day_start_equity = start_equity
    /\ position \in DecidePositions
    /\ x \in Snapshots
    /\ action = ""
    /\ orders = <<>>
    /\ fetched = TRUE
    /\ polled = MaxEquity
    /\ pos0 = position
    /\ prev = ""
    /\ AsideIdle

NextIteration ==
    \/ Decide
    \/ OpenOrder \/ SetPosition \/ CloseOrder \/ ClearPosition \/ NoTrade
    \/ StopOrder \/ StopClear \/ NoStop

SpecIteration == InitIteration /\ [][NextIteration]_vars

----------------------------------------------------------------------------
(* Pure functions under test: the initial state draws the arguments, the    *)
(* only step is the call.  Bot.loop is not running.                         *)

LoopIdle ==
    /\ pc = "idle" /\ exit = "" /\ dry_run = TRUE
    /\ start_equity = MaxEquity /\ day_start_equity = start_equity
    /\ position = FlatPosition /\ x = NoSnapshot /\ action = ""
    /\ orders = <<>> /\ fetched = FALSE /\ polled = None
    /\ pos0 = FlatPosition /\ prev = ""

LoopVars == <<pc, exit, dry_run, instrument, start_equity, day_start_equity,
              position, x, action, orders, fetched, polled, pos0, prev>>

\* instruments for sizing: also one whose min_qty is above its qty_step
SizingInstruments ==
    Instruments \cup
    { [qty_step |-> 100000, min_qty |-> 1000000, tick_size |-> 1, max_leverage |-> 50] }

SizingCalls ==
    { [fn |-> "position_sizing", equity |-> e, price |-> p, atr |-> a] :
        e \in Equities, p \in Prices \cup {HighPrice}, a \in {v \in Atrs : v > 0} }

InitSizing ==
    /\ LoopIdle
    /\ instrument \in SizingInstruments
    /\ call \in SizingCalls /\ ret = NoRet
    /\ st = NoWatch /\ sent = <<>> /\ ev = [kind |-> ""]

\* qty = self.position_sizing(price, atr) with get_wallet_equity() = call.equity
CallSizing ==
    /\ call.fn = "position_sizing" /\ ~ret.done
    /\ ret' = Ret(position_sizing(call.equity, instrument, call.price, call.atr))
    /\ UNCHANGED <<LoopVars, call, st, sent, ev>>

NextSizing == CallSizing

SpecSizing == InitSizing /\ [][NextSizing]_vars

\* the rows get_klines returns: (high, low, close) of a bar
Candles ==
    { [high |-> 2, low |-> 1, close |-> 1],
      [high |-> 2, low |-> 2, close |-> 2],
      [high |-> 4, low |-> 2, close |-> 3] }

RECURSIVE SeriesOfLen(_)
SeriesOfLen(n) ==
    IF n = 0 THEN {<<>>}
    ELSE {Append(sq, c) : sq \in SeriesOfLen(n - 1), c \in Candles}

Series == UNION {SeriesOfLen(n) : n \in 0..MaxLen}

Column(k, f) == [j \in 1..Len(k) |-> k[j][f]]

IndicatorCalls ==
    { [fn |-> f, k |-> k, n |-> n] :
        f \in {"sma", "ema", "rsi", "atr"}, k \in Series, n \in 1..MaxWindow }

InitIndicator ==
    /\ LoopIdle
    /\ instrument \in {i \in Instruments : i.tick_size = 1}
    /\ call \in IndicatorCalls /\ ret = NoRet
    /\ st = NoWatch /\ sent = <<>> /\ ev = [kind |-> ""]

\* one call of an indicator as compute_indicators makes it (lines 177-179)
CallIndicator ==
    /\ call.fn \in {"sma", "ema", "rsi", "atr"} /\ ~ret.done
    /\ LET c == Column(call.k, "close")
           h == Column(call.k, "high")
           l == Column(call.k, "low")
       IN  ret' = Ret(CASE call.fn = "sma" -> sma(c, call.n)
                        [] call.fn = "ema" -> ema(c, call.n)
                        [] call.fn = "rsi" -> rsi(c, call.n)
                        [] call.fn = "atr" -> atr(h, l, c, call.n))
    /\ UNCHANGED <<LoopVars, call, st, sent, ev>>

NextIndicator == CallIndicator

SpecIndicator == InitIndicator /\ [][NextIndicator]_vars

----------------------------------------------------------------------------
(* Properties                                                               *)

StopRequests == {"KeyboardInterrupt", "SystemExit"}

\* the Halt condition holds for the equity polled by this iteration's breaker
HaltSignalled == polled # None /\ HaltCondition(polled, start_equity)

\* the Pause condition holds for it
PauseSignalled == polled # None /\ PauseCondition(polled, day_start_equity)

\* C1: whenever the equity polled by the breaker of an iteration satisfies
\* the Halt condition, the loop is halted in that iteration, also when the
\* Pause condition holds too (no pause action is taken)
C1_HaltTakesPrecedence ==
    HaltSignalled => pc = "halted" /\ exit = "halt"

\* C2: in the iteration whose breaker poll satisfies the Halt condition no
\* order is submitted, and from then on nothing happens any more: no further
\* iteration, no gateway call, no change of Position
C2_HaltIsTerminal ==
    /\ [](HaltSignalled => orders = <<>> /\ ~fetched)
    /\ [][HaltSignalled =>
            /\ pc' \notin {"breakers", "klines"}
            /\ position' = position /\ orders' = orders]_vars

\* C3: in an iteration in which circuit_breakers reports Pause the loop
\* submits no order, fetches no candles, leaves the Position record as it
\* was, does not end by itself, and its next step is the next iteration
C3_PauseSkipsIteration ==
    /\ [](polled # None /\ circuit_breakers(polled, day_start_equity, start_equity) = "pause"
            => /\ pc = "sleep_pause"
               /\ orders = <<>> /\ ~fetched /\ position = pos0
               /\ exit \in {""} \cup StopRequests)
    /\ [][pc = "sleep_pause" /\ pc' # pc => pc' = "breakers" /\ position' = position]_vars

\* a paused iteration that holds an open position whose Halt condition is false
C3_Witness ==
    /\ pc = "sleep_pause" /\ exit = ""
    /\ PauseSignalled /\ ~HaltSignalled
    /\ position.side = "long"

\* C4: at the end of an iteration that was neither paused nor halted nor cut
\* short by an error, if a position was open when the iteration started and
\* the close has crossed its stop, a reduce-only order opposite to the held
\* side and of the held quantity was submitted and the Position is flat
C4_StopEnforced ==
    (/\ pc = "sleep"
     /\ \/ pos0.side = "long" /\ x.close <= pos0.sl
        \/ pos0.side = "short" /\ x.close >= pos0.sl)
    => /\ position = FlatPosition
       /\ \E i \in 1..Len(orders) :
            /\ orders[i].reduceOnly
            /\ orders[i].side = (IF pos0.side = "long" THEN "Sell" ELSE "Buy")
            /\ orders[i].qty = pos0.qty

\* the stop of a long position was hit exactly, the decision was manage, and
\* the emergency close went out
C4_Witness ==
    /\ pc = "sleep"
    /\ pos0.side = "long" /\ x.close = pos0.sl
    /\ action = "manage"
    /\ position = FlatPosition
    /\ Len(orders) = 1 /\ orders[1].kind = "stop"

\* C5: while one position stays open, no step lowers the stop of a long
\* position or raises the stop of a short position
C5_StopNeverLoosened ==
    [][/\ (position.side = "long" /\ position'.side = "long")
            => position'.sl >= position.sl
       /\ (position.side = "short" /\ position'.side = "short")
            => position'.sl <= position.sl]_vars

\* a long position whose stop was raised by the trailing update of this
\* iteration
C5_Witness ==
    /\ pc = "sleep"
    /\ pos0.side = "long" /\ position.side = "long"
    /\ position.sl > pos0.sl

\* C6: an opening order is submitted only while the Position is flat, a
\* reduce-only order only while it is not; an iteration submits at most one
\* opening order, and once the opening order is recorded the Position is
\* open until a reduce-only order of the same iteration closes it
C6_OnePosition ==
    /\ [][Len(orders') > Len(orders) =>
            /\ ~Last(orders').reduceOnly => position.side = ""
            /\ Last(orders').reduceOnly => position.side # ""]_vars
    /\ [](/\ Cardinality({i \in 1..Len(orders) : ~orders[i].reduceOnly}) <= 1
          /\ (Len(orders) > 0 /\ ~Last(orders).reduceOnly /\ pc # "set_position")
                => position.side # "")

\* the iteration started flat, its opening order has gone out and the
\* Position is open
C6_Witness ==
    /\ pc = "sl_check"
    /\ Len(orders) = 1 /\ ~orders[1].reduceOnly
    /\ position.side = "short" /\ pos0.side = ""

\* C7: a flat Position has quantity, stop and target 0
C7_FlatIsZero ==
    position.side = "" => position.qty = 0 /\ position.sl = 0 /\ position.tp = 0

\* a position was cleared by the emergency close of this iteration
C7_Witness ==
    /\ pc = "sleep"
    /\ pos0.side # "" /\ pos0.qty > 0 /\ pos0.sl > 0
    /\ position.side = ""
    /\ Len(orders) = 1 /\ orders[1].kind = "stop"

\* C8: inside an iteration only the Halt breaker and an external stop
\* request end the process; an error makes the loop sleep and start the
\* next iteration
C8_ErrorsNeverStopLoop ==
    /\ [][(pc # "banner" /\ exit = "" /\ exit' # "") =>
            exit' \in {"halt"} \cup StopRequests]_vars
    /\ [][(pc = "sleep_err" /\ pc' # pc) => (pc' = "breakers" /\ exit' = "")]_vars
    /\ [](pc = "sleep_err" => exit \in {""} \cup StopRequests)

\* an order submission failed after the opening order of the same iteration
\* had gone out, and the loop is still running
C8_Witness ==
    /\ pc = "sleep_err" /\ exit = ""
    /\ Len(orders) = 1 /\ orders[1].kind = "open"
    /\ position.side # ""

BoundaryPcs == SleepPcs \cup {"banner", "breakers"}

\* C9 as stated: when the process has ended on an external stop request, no
\* order is left without its Position update and no iteration was cut off
\* between its steps
C9_StopOnlyAtBoundary ==
    exit \in StopRequests => pc \in BoundaryPcs

\* C9 amended: a stop request ends the process at the statement at which it
\* arrives; the stop itself submits no order and leaves Position and the
\* place in the iteration as they are (an open position is not closed)
C9_StopAbandonsIteration ==
    [][(exit = "" /\ exit' \in StopRequests) =>
            position' = position /\ orders' = orders /\ pc' = pc]_vars

\* the process ended between the submission of an opening order and the
\* Position update
C9_Witness ==
    /\ exit \in StopRequests
    /\ pc = "set_position"
    /\ Len(orders) = 1 /\ orders[1].kind = "open"
    /\ position.side = ""

\* C10: with a flat Position and sfast, sslow, ema200 and rsi all available,
\* decide returns open_long exactly on the long-entry condition, open_short
\* exactly on the short-entry condition, and hold otherwise
C10_FlatDecision ==
    (/\ pc = "act" /\ pos0.side = ""
     /\ x.sfast # None /\ x.sslow # None /\ x.ema200 # None /\ x.rsi # None)
    => action =
         IF x.sfast > x.sslow /\ x.close > x.ema200 /\ x.rsi > RSI_LONG
         THEN "open_long"
         ELSE IF x.sfast < x.sslow /\ x.close < x.ema200 /\ x.rsi < RSI_SHORT
         THEN "open_short"
         ELSE "hold"

\* C11: with an open long Position and all of sfast, sslow, ema200, rsi
\* available, decide returns close_long exactly on the short-entry condition
\* and manage otherwise; with an open short Position close_short exactly on
\* the long-entry condition and manage otherwise
C11_OpenDecision ==
    (/\ pc = "act" /\ pos0.side # ""
     /\ x.sfast # None /\ x.sslow # None /\ x.ema200 # None /\ x.rsi # None)
    => action =
         IF pos0.side = "long"
         THEN IF x.sfast < x.sslow /\ x.close < x.ema200 /\ x.rsi < RSI_SHORT
              THEN "close_long" ELSE "manage"
         ELSE IF x.sfast > x.sslow /\ x.close > x.ema200 /\ x.rsi > RSI_LONG
              THEN "close_short" ELSE "manage"

\* some indicator of the four is unavailable in the snapshot
SomeUnavailable ==
    x.sfast = None \/ x.sslow = None \/ x.ema200 = None \/ x.rsi = None

\* C12: when sfast, sslow, ema200 or rsi is unavailable, the decision is
\* hold for a flat Position and manage for an open one, and the iteration
\* submits no opening order and no signal close
C12_UnavailableNoEntry ==
    (pc # "decide" /\ SomeUnavailable)
    => /\ action = (IF pos0.side = "" THEN "hold" ELSE "manage")
       /\ \A i \in 1..Len(orders) : orders[i].kind = "stop"

\* a flat iteration ended without an order although everything but the
\* unavailable ema200 spoke for a long entry
C12_Witness ==
    /\ pc = "sleep"
    /\ x.ema200 = None /\ x.sfast # None /\ x.sslow # None
    /\ x.sfast > x.sslow /\ x.rsi > RSI_LONG /\ x.atr > 0
    /\ pos0.side = "" /\ action = "hold" /\ orders = <<>>

\* the notional cap equity * MAX_POS_EQUITY_FRAC * MAX_LEVERAGE of the call,
\* in quantity units times price
NotionalCap ==
    call.equity * MAX_POS_EQUITY_FRAC * MAX_LEVERAGE * (QtyScale \div TenthScale)

\* C13 as stated: every sizing result, less one quantity step, has a
\* notional of at most equity * maxPositionEquityFraction * maxLeverage
C13_NotionalCapped ==
    ret.done => (ret.val - instrument.qty_step) * call.price <= NotionalCap

\* C13 amended: the same for every sizing result above minQuantity
C13_NotionalCappedAboveMin ==
    (ret.done /\ ret.val > instrument.min_qty)
    => (ret.val - instrument.qty_step) * call.price <= NotionalCap

\* a result above minQuantity that the notional cap has cut: one step more
\* would exceed the cap
C13_Witness ==
    /\ ret.done /\ ret.val > instrument.min_qty
    /\ call.price = HighPrice
    /\ ret.val * call.price <= NotionalCap
    /\ (ret.val + instrument.qty_step) * call.price > NotionalCap

\* C14: every sizing result is at least the instrument's minQuantity
C14_AtLeastMinQty ==
    ret.done => ret.val >= instrument.min_qty

\* sizing with equity 0 returned exactly minQuantity
C14_Witness ==
    /\ ret.done /\ call.equity = 0
    /\ ret.val = instrument.min_qty

----------------------------------------------------------------------------
(* telegram_bybit_watch_bot.py: the watcher of one chat and its commands.   *)
(* st is the chat's WatchState, sent the messages the bot wrote to the      *)
(* chat (oldest first), ev the handler that ran last.                       *)

WatchState ==
    [symbol |-> "ETHUSDT", above |-> None, below |-> None,
     pct_move |-> None, baseline |-> None,
     last_above_triggered |-> FALSE, last_below_triggered |-> FALSE]

Thresholds == {MidPrice}
PctMoves == {0, MaxPctMove \div 2, MaxPctMove}

\* lines 81-86 of the watcher, alerting on the level instead of the crossing
above_check_on_level(s, p) ==
    IF s.above = None THEN [alert |-> FALSE, trig |-> s.last_above_triggered]
    ELSE IF p >= s.above THEN [alert |-> TRUE, trig |-> TRUE]
    ELSE [alert |-> FALSE, trig |-> FALSE]

\* lines 81-86
above_check(s, p) ==
    IF s.above = None THEN [alert |-> FALSE, trig |-> s.last_above_triggered]
    ELSE IF p >= s.above /\ ~s.last_above_triggered THEN [alert |-> TRUE, trig |-> TRUE]
    ELSE IF p < s.above THEN [alert |-> FALSE, trig |-> FALSE]
    ELSE [alert |-> FALSE, trig |-> s.last_above_triggered]

\* lines 87-92
below_check(s, p) ==
    IF s.below = None THEN [alert |-> FALSE, trig |-> s.last_below_triggered]
    ELSE IF p <= s.below /\ ~s.last_below_triggered THEN [alert |-> TRUE, trig |-> TRUE]
    ELSE IF p > s.below THEN [alert |-> FALSE, trig |-> FALSE]
    ELSE [alert |-> FALSE, trig |-> s.last_below_triggered]

\* lines 75-76: the first price seen becomes the baseline
baseline_init(s, p) ==
    IF s.pct_move # None /\ s.baseline = None THEN p ELSE s.baseline

\* lines 93-98 keeping the old baseline after an alert
pct_check_keeps_baseline(s, b, p) ==
    IF s.pct_move = None \/ b = None THEN [alert |-> FALSE, baseline |-> b]
    ELSE IF Abs(p - b) * PctScale >= s.pct_move * b
         THEN [alert |-> TRUE, baseline |-> b]
         ELSE [alert |-> FALSE, baseline |-> b]

\* lines 93-98, b the baseline after lines 75-76 (b > 0):
\* abs(p-b)/b*100 >= pct_move
pct_check(s, b, p) ==
    IF s.pct_move = None \/ b = None THEN [alert |-> FALSE, baseline |-> b]
    ELSE IF Abs(p - b) * PctScale >= s.pct_move * b
         THEN [alert |-> TRUE, baseline |-> p]
         ELSE [alert |-> FALSE, baseline |-> b]

\* one pass of the watcher's loop body for the price p (lines 72-100):
\* the new WatchState and the alerts of the message
watcher_pass(s, p) ==
    LET a == above_check(s, p)
        b == below_check(s, p)
        c == pct_check(s, baseline_init(s, p), p)
    IN  [st |-> [s EXCEPT !.last_above_triggered = a.trig,
                          !.last_below_triggered = b.trig,
                          !.baseline = c.baseline],
         alerts |-> {k \in {"above", "below", "pct"} :
                        \/ k = "above" /\ a.alert
                        \/ k = "below" /\ b.alert
                        \/ k = "pct" /\ c.alert}]

InitWatch ==
    /\ LoopIdle
    /\ instrument \in {i \in Instruments : i.tick_size = 1}
    /\ call = NoCall /\ ret = NoRet
    /\ st = WatchState /\ sent = <<>> /\ ev = [kind |-> ""]

\* get_price returned p; the message is written with send_message, which
\* delivers it or raises (the WatchState has been updated either way)
Poll ==
    /\ Len(sent) < MaxLog
    /\ \E p \in Prices, delivered \in BOOLEAN :
        LET r == watcher_pass(st, p) IN
        /\ st' = r.st
        /\ sent' = Append(sent, [kind |-> "tick", price |-> p, alerts |-> r.alerts,
                                 above |-> st.above, below |-> st.below,
                                 delivered |-> delivered])
        /\ ev' = [kind |-> "poll"]
    /\ UNCHANGED <<LoopVars, call, ret>>

\* get_price raised: the pass is abandoned with a warning (lines 102-103)
PollFails ==
    /\ Len(sent) < MaxLog
    /\ sent' = Append(sent, [kind |-> "warn"])
    /\ ev' = [kind |-> "poll_failed"]
    /\ UNCHANGED <<LoopVars, call, ret, st>>

CmdAbove ==
    /\ Len(sent) < MaxLog
    /\ \E v \in Thresholds :
        /\ st' = [st EXCEPT !.above = v, !.last_above_triggered = FALSE]
        /\ sent' = Append(sent, [kind |-> "above", value |-> v])
    /\ ev' = [kind |-> "cmd_above"]
    /\ UNCHANGED <<LoopVars, call, ret>>

CmdBelow ==
    /\ Len(sent) < MaxLog
    /\ \E v \in Thresholds :
        /\ st' = [st EXCEPT !.below = v, !.last_below_triggered = FALSE]
        /\ sent' = Append(sent, [kind |-> "below", value |-> v])
    /\ ev' = [kind |-> "cmd_below"]
    /\ UNCHANGED <<LoopVars, call, ret>>

CmdPct ==
    /\ Len(sent) < MaxLog
    /\ \E v \in PctMoves :
        /\ st' = [st EXCEPT !.pct_move = v, !.baseline = None]
        /\ sent' = Append(sent, [kind |-> "pct", value |-> v])
    /\ ev' = [kind |-> "cmd_pct"]
    /\ UNCHANGED <<LoopVars, call, ret>>

NextWatch == Poll \/ PollFails \/ CmdAbove \/ CmdBelow \/ CmdPct

SpecWatch == InitWatch /\ [][NextWatch]_vars

\* the number of points an indicator call needs: n for sma and ema, n+1
\* for rsi and atr
RequiredLen == IF call.fn \in {"sma", "ema"} THEN call.n ELSE call.n + 1

\* C15: an indicator returns None exactly for the series shorter than its
\* required length, and a number for every other series
C15_UnavailableIffShort ==
    ret.done => (ret.val.none <=> Len(call.k) < RequiredLen)

\* each indicator returned a number on a series of exactly the required length
C15_Witness ==
    /\ ret.done /\ ~ret.val.none
    /\ call.fn = "atr" /\ call.n = MaxWindow
    /\ Len(call.k) = call.n + 1
    /\ ret.val.num > 0

AlertAt(i, k) == sent[i].kind = "tick" /\ k \in sent[i].alerts

\* C16: between two 'above' alerts of a chat there is a poll that saw the
\* price strictly below the threshold or an /above command, and between two
\* 'below' alerts a poll that saw the price strictly above the threshold or
\* a /below command
C16_AlertOnCrossing ==
    \A i, j \in 1..Len(sent) :
        /\ (i < j /\ AlertAt(i, "above") /\ AlertAt(j, "above"))
           => \E m \in (i + 1)..(j - 1) :
                 \/ sent[m].kind = "above"
                 \/ sent[m].kind = "tick" /\ sent[m].price < sent[i].above
        /\ (i < j /\ AlertAt(i, "below") /\ AlertAt(j, "below"))
           => \E m \in (i + 1)..(j - 1) :
                 \/ sent[m].kind = "below"
                 \/ sent[m].kind = "tick" /\ sent[m].price > sent[i].below

\* /above, a delivered 'above' alert, a poll below the threshold, and the
\* next 'above' alert
C16_Witness ==
    /\ Len(sent) = 4
    /\ AlertAt(2, "above") /\ sent[2].delivered
    /\ sent[3].kind = "tick" /\ sent[3].price < sent[2].above
    /\ AlertAt(4, "above")

\* the step is one pass of the watcher that got a price
PollStep == ev'.kind = "poll" /\ Len(sent') = Len(sent) + 1

PctAlerted == "pct" \in Last(sent').alerts

\* a pass that has a baseline alerts exactly on a move of at least pct_move
\* percent from it, and then the price becomes the baseline
PctAlertResetsBaseline ==
    (PollStep /\ st.pct_move # None /\ st.baseline # None)
    => /\ PctAlerted
          <=> Abs(Last(sent').price - st.baseline) * PctScale
                 >= st.pct_move * st.baseline
       /\ st'.baseline = IF PctAlerted THEN Last(sent').price ELSE st.baseline

PctClearsBaseline ==
    (ev'.kind = "cmd_pct" /\ Len(sent') = Len(sent) + 1) => st'.baseline = None

\* C17 as stated: a percentage alert resets the baseline to the alerting
\* price, /pct clears the baseline, and the first pass after /pct sets the
\* baseline to the observed price without alerting
C17_BaselineReset ==
    [][ /\ PctAlertResetsBaseline
        /\ PctClearsBaseline
        /\ (PollStep /\ st.pct_move # None /\ st.baseline = None)
           => (st'.baseline = Last(sent').price /\ ~PctAlerted) ]_vars

\* C17 amended: the first pass after /pct is silent only for a positive
\* pct_move; for pct_move <= 0 it sets the baseline and alerts at once
C17_BaselineResetPositivePct ==
    [][ /\ PctAlertResetsBaseline
        /\ PctClearsBaseline
        /\ (PollStep /\ st.pct_move # None /\ st.baseline = None)
           => /\ st'.baseline = Last(sent').price
              /\ PctAlerted <=> st.pct_move <= 0 ]_vars

\* /pct with a positive move, the silent pass that sets the baseline, a
\* pass that alerts and resets it, and a pass measured from the new baseline
C17_Witness ==
    /\ Len(sent) = 4
    /\ sent[1].kind = "pct" /\ sent[1].value > 0
    /\ sent[2].kind = "tick" /\ sent[2].alerts = {}
    /\ AlertAt(3, "pct")
    /\ sent[4].kind = "tick" /\ sent[4].price # sent[3].price /\ sent[4].alerts = {}
    /\ st.baseline = sent[3].price

\* the polled equity has fallen by the global-drawdown limit from the
\* session baseline
HaltHolds ==
    /\ polled # None /\ start_equity > 0
    /\ (polled - start_equity) * PctScale <= -(GLOBAL_DD_LIMIT * start_equity)

\* it has fallen by the daily-loss limit from the daily baseline
PauseHolds ==
    /\ polled # None /\ day_start_equity > 0
    /\ (polled - day_start_equity) * PctScale <= -(DAILY_LOSS_LIMIT * day_start_equity)

\* C18: the two baselines are equal and no step changes them; whenever the
\* Halt condition holds for the polled equity the Pause condition holds too,
\* and Pause is what the breaker reported
C18_PauseDuplicatesHalt ==
    /\ [](day_start_equity = start_equity)
    /\ [][start_equity' = start_equity /\ day_start_equity' = day_start_equity]_vars
    /\ [](HaltHolds => PauseHolds /\ pc = "sleep_pause")

\* a later cycle, after trading, polls an equity below the Halt limit of the
\* unchanged baselines and pauses
C18_Witness ==
    /\ HaltHolds /\ polled > 0
    /\ pc = "sleep_pause" /\ prev = "sleep"
    /\ position.side # ""
    /\ day_start_equity = MaxEquity

\* C19: a pause only sleeps and returns to the breaker, which polls the
\* equity anew in every cycle; when the polled equity does not satisfy the
\* Pause condition (hence not the Halt condition) the cycle goes on to the
\* fetch, decide and act steps, with the Position unchanged, also right
\* after a paused cycle
C19_PauseNotSticky ==
    /\ [][(pc = "sleep_pause" /\ pc' # pc)
            => pc' = "breakers" /\ polled' = None /\ position' = position]_vars
    /\ [][(pc = "breakers" /\ polled' # None)
            => /\ polled = None
               /\ position' = position
               /\ ~PauseHolds' => pc' = "klines"]_vars
    /\ []((prev = "sleep_pause" /\ pc \in {"klines", "decide"}) => position = pos0)

\* the cycle after a pause closed the long position held before the pause
C19_Witness ==
    /\ prev = "sleep_pause" /\ polled # None /\ ~PauseHolds
    /\ pos0.side = "long" /\ action = "close_long"
    /\ orders # <<>> /\ Last(orders).kind = "close"
    /\ position.side = "" /\ pc = "sleep"

SideOfOrder(o) == IF o.side = "Buy" THEN "long" ELSE "short"

\* C20: the Position changes side only in the step after its order was
\* submitted (flat to the side of an opening order, or to flat after a
\* reduce-only close of the held side and quantity); a step that fails
\* changes neither Position nor orders, so a cycle that fails before any
\* order went out ends with the side, entry and quantity it started with,
\* and the next cycle starts with that Position
C20_PositionFollowsOrders ==
    /\ [][position'.side # position.side
            => /\ orders # <<>> /\ orders' = orders
               /\ LET o == Last(orders) IN
                  \/ /\ position.side = "" /\ o.kind = "open"
                     /\ position'.side = SideOfOrder(o) /\ position'.qty = o.qty
                  \/ /\ position.side # "" /\ o.kind \in {"close", "stop"}
                     /\ SideOfOrder(o) # position.side /\ o.qty = position.qty
                     /\ position'.side = ""]_vars
    /\ [][(pc' = "sleep_err" /\ pc # "sleep_err")
            => position' = position /\ orders' = orders]_vars
    /\ []((pc = "sleep_err" /\ orders = <<>>)
            => /\ position.side = pos0.side
               /\ position.entry = pos0.entry
               /\ position.qty = pos0.qty)
    /\ [][(pc = "sleep_err" /\ pc' # pc)
            => pc' = "breakers" /\ position' = position]_vars

\* after a cycle that failed, the close of the long position failed at the
\* gateway again: the position is as it was and no order went out
C20_Witness ==
    /\ pc = "sleep_err" /\ prev = "sleep_err"
    /\ ~dry_run /\ fetched
    /\ action = "close_long" /\ orders = <<>>
    /\ position.side = "long" /\ position = pos0

\* the opening order o of this cycle has its stop and target on the proper
\* sides of the entry price x.close
BracketsStraddleEntry(o) ==
    IF o.side = "Buy" THEN o.sl < x.close /\ x.close < o.tp
    ELSE o.tp < x.close /\ x.close < o.sl

\* C21: the brackets of every opening order lie strictly on their sides of
\* the entry price (long: stop below, target above; short: stop above,
\* target below), and the cycle that opened a position neither finds its stop
\* crossed nor submits an emergency close
C21_NoStopInOpeningCycle ==
    \A i \in 1..Len(orders) :
        orders[i].kind = "open"
        => /\ BracketsStraddleEntry(orders[i])
           /\ \A j \in 1..Len(orders) : orders[j].kind # "stop"
           /\ (pc = "sl_check" /\ position.side # "")
              => IF position.side = "long" THEN x.close > position.sl
                 ELSE x.close < position.sl

\* C22: when the equity polled at start was 0, both baselines are 0 and no
\* cycle is paused or halted whatever equity its breaker polls: every breaker
\* poll is followed by the fetch of the candles
C22_ZeroBaselineNoBreaker ==
    /\ [](start_equity = 0
            => /\ day_start_equity = 0
               /\ pc \notin {"sleep_pause", "halted"}
               /\ exit # "halt"
               /\ prev # "sleep_pause")
    /\ [][(start_equity = 0 /\ pc = "breakers" /\ polled' # None)
            => pc' = "klines"]_vars

\* with baselines 0, a later cycle whose breaker polled equity 0 opened a
\* position
C22_Witness ==
    /\ start_equity = 0 /\ day_start_equity = 0
    /\ prev = "sleep" /\ polled = 0
    /\ orders # <<>> /\ Last(orders).kind = "open"
    /\ position.side # "" /\ pc = "sleep"

====
